---- MODULE Spec2Model ----
(***************************************************************************)
(* goonit, package core (src/match/type.go): the BaseTest capture store    *)
(* and the call-stack walk (BuildCallerStack) that classifies the frames   *)
(* of the capturing goroutine and derives the correlation key under which  *)
(* captured values are bucketed.                                           *)
(*                                                                         *)
(* Go strings are sequences of one-character strings, so that parseName,   *)
(* startsWith and strings.Join work on characters as the code does.  The   *)
(* frames of a stack are named by short labels; RawName gives the symbol   *)
(* name of each.  A *FuncInfo is a record of the caller index it was       *)
(* resolved at and the frame found there: every NewFuncInfo allocates, so  *)
(* two pointers are equal exactly when they were resolved at the same      *)
(* index of the same walk.  The nil pointer is NilFrame.                   *)
(*                                                                         *)
(* Four specifications share the variables: WalkSpec follows one walk of   *)
(* BuildCallerStack step by step, Spec the operations on the capture       *)
(* store, NameSpec the parsing and classification of raw names, and        *)
(* EnvSpec the overrides of the environment and os.Args that Done undoes.  *)
(***************************************************************************)
EXTENDS Integers, Sequences, FiniteSets, TLC

VARIABLES
    captured,   \* BaseTest.captured: every captured value, in call order
    capsFrom,   \* BaseTest.capsFrom: correlation key -> captured values
    last,       \* the last BaseTest operation of the test and how it ended
    calls,      \* history: the Capture calls that returned, in call order
    frames,     \* walk: the goroutine's stack, innermost frame first
    i,          \* walk: the loop index of BuildCallerStack
    s,          \* walk: the FuncInfoStack being built
    pc,         \* walk: position of the walk in BuildCallerStack
    prev,       \* walk: the Mocker and Mocked the goroutine's previous walk found
    name,       \* names: the raw name runtime.Func.Name gives of a function
    info,       \* names: the FuncInfo made of it, and what IsMock and IsTest say
    env,        \* process: the environment, variable name -> value or Unset
    osArgs,     \* process: os.Args
    afterFunc,  \* BaseTest.afterFunc: what Done runs, in the order it runs it
    before,     \* history: the environment and os.Args when the test began
    phase       \* process: where the test using SetEnv, SetArgs and Done is

vars ==
    <<captured, capsFrom, last, calls, frames, i, s, pc, prev, name, info,
      env, osArgs, afterFunc, before, phase>>
storeVars == <<captured, capsFrom, last, calls>>
walkVars == <<frames, i, s, pc, prev>>
nameVars == <<name, info>>
envVars == <<env, osArgs, afterFunc, before, phase>>

----------------------------------------------------------------------------
(* Bounds of the model. *)

\* the deepest stack of callers a walk is followed through step by step
MaxDepth == 3
\* the deepest stack of callers above an operation on the capture store
StoreDepth == 2
\* the most values a test captures in all
MaxCaptured == 2

----------------------------------------------------------------------------
(* Go strings. *)

Dot == <<".">>
EmptyStr == <<>>
LowerLetters ==
    {"a", "b", "c", "d", "e", "f", "g", "h", "i", "j", "k", "l", "m",
     "n", "o", "p", "q", "r", "s", "t", "u", "v", "w", "x", "y", "z"}

\* unicode.IsLower on the characters of the model
IsLower(c) == c \in LowerLetters

HasPrefix(str, prefix) ==
    /\ Len(str) >= Len(prefix)
    /\ SubSeq(str, 1, Len(prefix)) = prefix

HasSuffix(str, suffix) ==
    /\ Len(str) >= Len(suffix)
    /\ SubSeq(str, Len(str) - Len(suffix) + 1, Len(str)) = suffix

TrimPrefix(str, prefix) ==
    IF HasPrefix(str, prefix) THEN SubSeq(str, Len(prefix) + 1, Len(str)) ELSE str

TrimSuffix(str, suffix) ==
    IF HasSuffix(str, suffix) THEN SubSeq(str, 1, Len(str) - Len(suffix)) ELSE str

\* strings.Split(str, "."): the segments between the dots; one segment, the
\* whole string, when there is no dot
RECURSIVE SplitFrom(_, _, _)
SplitFrom(str, k, cur) ==
    IF k > Len(str) THEN <<cur>>
    ELSE IF str[k] = "." THEN <<cur>> \o SplitFrom(str, k + 1, <<>>)
    ELSE SplitFrom(str, k + 1, Append(cur, str[k]))

Split(str) == SplitFrom(str, 1, <<>>)

\* strings.Join(elems, ".")
RECURSIVE Join(_)
Join(elems) ==
    IF Len(elems) = 0 THEN <<>>
    ELSE IF Len(elems) = 1 THEN elems[1]
    ELSE elems[1] \o Dot \o Join(Tail(elems))

----------------------------------------------------------------------------
(* The frames a goroutine's stack is made of, and what runtime.Caller and  *)
(* runtime.Func.Name report of each: the raw name and the file.            *)

S_core ==
    <<"g", "i", "t", "h", "u", "b", ".", "c", "o", "m", "/", "s", "b", "e", "r",
      "n", "h", "e", "i", "m", "/", "g", "o", "o", "n", "i", "t", "/", "c", "o",
      "r", "e">>
S_BaseTest == <<"B", "a", "s", "e", "T", "e", "s", "t">>
S_BuildCallerStack ==
    <<"B", "u", "i", "l", "d", "C", "a", "l", "l", "e", "r", "S", "t", "a", "c", "k">>
S_Capture == <<"C", "a", "p", "t", "u", "r", "e">>
S_GetMockedCallName ==
    <<"G", "e", "t", "M", "o", "c", "k", "e", "d", "C", "a", "l", "l", "N", "a", "m", "e">>
S_GetCallerInfo == <<"G", "e", "t", "C", "a", "l", "l", "e", "r", "I", "n", "f", "o">>
S_CapturedOfType ==
    <<"C", "a", "p", "t", "u", "r", "e", "d", "O", "f", "T", "y", "p", "e">>
S_CapturedFrom == <<"C", "a", "p", "t", "u", "r", "e", "d", "F", "r", "o", "m">>
S_FirstCapturedOfType == <<"F", "i", "r", "s", "t">> \o S_CapturedOfType
S_CapturedOfTypeFromCall == S_CapturedOfType \o <<"F", "r", "o", "m", "C", "a", "l", "l">>
S_record == <<"r", "e", "c", "o", "r", "d">>
S_mocks == <<"m", "o", "c", "k", "s">>
S_fakes == <<"f", "a", "k", "e", "s">>
S_MockLog == <<"M", "o", "c", "k", "L", "o", "g">>
S_Info == <<"I", "n", "f", "o">>
S_app == <<"a", "p", "p">>
S_TestRun == <<"T", "e", "s", "t", "R", "u", "n">>
S_Svc == <<"S", "v", "c">>
S_Run == <<"R", "u", "n">>

\* pkg.(*Recv).Method and pkg.Function, as runtime.Func.Name gives them
MethodName(pkg, recv, fn) == pkg \o Dot \o <<"(", "*">> \o recv \o <<")">> \o Dot \o fn
FuncName(pkg, fn) == pkg \o Dot \o fn

\* the frames of package core: BuildCallerStack and the BaseTest operations
CoreOps ==
    {"BuildCallerStack", "Capture", "GetMockedCallName", "GetCallerInfo",
     "CapturedOfType", "CapturedFrom", "FirstCapturedOfType",
     "CapturedOfTypeFromCall"}

\* the callers of a BaseTest operation:
\*   "core"  a function of package core itself
\*   "mock"  a method of a mock, mocks.(*MockLog).Info
\*   "fake"  the same receiver type and method in another package
\*   "test"  a test function, app.TestRun
\*   "svc"   the method under test, app.(*Svc).Run
\*   "wrap"  the compiler's wrapper of the method under test
CallerFrames == {"core", "mock", "fake", "test", "svc", "wrap"}

FrameLabels == CoreOps \cup CallerFrames

RawName(frame) ==
    CASE frame = "BuildCallerStack" -> MethodName(S_core, S_BaseTest, S_BuildCallerStack)
      [] frame = "Capture" -> MethodName(S_core, S_BaseTest, S_Capture)
      [] frame = "GetMockedCallName" -> MethodName(S_core, S_BaseTest, S_GetMockedCallName)
      [] frame = "GetCallerInfo" -> MethodName(S_core, S_BaseTest, S_GetCallerInfo)
      [] frame = "CapturedOfType" -> MethodName(S_core, S_BaseTest, S_CapturedOfType)
      [] frame = "CapturedFrom" -> MethodName(S_core, S_BaseTest, S_CapturedFrom)
      [] frame = "FirstCapturedOfType" ->
            MethodName(S_core, S_BaseTest, S_FirstCapturedOfType)
      [] frame = "CapturedOfTypeFromCall" ->
            MethodName(S_core, S_BaseTest, S_CapturedOfTypeFromCall)
      [] frame = "core" -> FuncName(S_core, S_record)
      [] frame = "mock" -> MethodName(S_mocks, S_MockLog, S_Info)
      [] frame = "fake" -> MethodName(S_fakes, S_MockLog, S_Info)
      [] frame = "test" -> FuncName(S_app, S_TestRun)
      [] frame = "svc" -> MethodName(S_app, S_Svc, S_Run)
      [] frame = "wrap" -> MethodName(S_app, S_Svc, S_Run)

AutoFile == "<autogenerated>"

\* the file runtime.Caller reports
FileOf(frame) == IF frame = "wrap" THEN AutoFile ELSE "go"

RECURSIVE SeqsUpTo(_, _)
SeqsUpTo(S, n) ==
    IF n = 0 THEN {<<>>}
    ELSE LET shorter == SeqsUpTo(S, n - 1)
         IN  shorter \cup {Append(q, x) : q \in shorter, x \in S}

\* the stacks of callers above a BaseTest operation, nearest caller first
CallerStacks == SeqsUpTo(CallerFrames, MaxDepth)

\* the callers of the operations on the capture store
StoreFrames == {"core", "mock", "test", "wrap"}
StoreStacks == SeqsUpTo(StoreFrames, StoreDepth)

\* the goroutine's stack during a walk: BuildCallerStack, the BaseTest
\* operations that led to it (innermost first), then their callers.  Frame k is
\* what runtime.Caller(k) reports inside CallerFuncInfo (frame 0 is
\* CallerFuncInfo itself)
GoStack(ops, callers) == <<"BuildCallerStack">> \o ops \o callers

----------------------------------------------------------------------------
(* FuncInfo: parsing a frame's raw name, and the frame predicates. *)

NilFrame == [at |-> 0, frame |-> "nil"]

isObjectRef(str) == HasPrefix(str, <<"(">>) /\ HasSuffix(str, <<")">>)

\* index of the first segment that is an object reference, 0 when none
\* (the code's -1, false; segments are numbered from 1 here)
\* findObjectRef that keeps the last segment that is an object reference
findLastObjectRef(refs) ==
    IF \E k \in 1..Len(refs) : isObjectRef(refs[k])
    THEN CHOOSE k \in 1..Len(refs) :
            /\ isObjectRef(refs[k])
            /\ \A j \in (k + 1)..Len(refs) : ~isObjectRef(refs[j])
    ELSE 0

findObjectRef(refs) ==
    IF \E k \in 1..Len(refs) : isObjectRef(refs[k])
    THEN CHOOSE k \in 1..Len(refs) :
            /\ isObjectRef(refs[k])
            /\ \A j \in 1..(k - 1) : ~isObjectRef(refs[j])
    ELSE 0

trimObjectRef(str) ==
    TrimPrefix(TrimPrefix(TrimSuffix(str, <<")">>), <<"(">>), <<"*">>)

parseName(rawName) ==
    LET nameElems == Split(rawName)
        objIndex == findObjectRef(nameElems)
    IN  IF Len(nameElems) < 2
        THEN [Function |-> rawName, Object |-> EmptyStr, Package |-> EmptyStr]
        ELSE IF objIndex # 0
        THEN [Function |-> Join(SubSeq(nameElems, objIndex + 1, Len(nameElems))),
              Object   |-> trimObjectRef(nameElems[objIndex]),
              Package  |-> Join(SubSeq(nameElems, 1, objIndex - 1))]
        ELSE [Function |-> nameElems[Len(nameElems)],
              Object   |-> EmptyStr,
              Package  |-> Join(SubSeq(nameElems, 1, Len(nameElems) - 1))]

\* the fields parseName sets, for every frame of the model
RECURSIVE ParsedNames(_)
ParsedNames(labels) ==
    IF labels = {} THEN <<>>
    ELSE LET l == CHOOSE x \in labels : TRUE
         IN  (l :> parseName(RawName(l))) @@ ParsedNames(labels \ {l})

Parsed == ParsedNames(FrameLabels)

\* the *FuncInfo allocated for the frame resolved at caller index at
NewFuncInfo(frame, at) == [at |-> at, frame |-> frame]

\* the fields of a *FuncInfo that is not nil
Function(f) == Parsed[f.frame].Function
Object(f) == Parsed[f.frame].Object
Package(f) == Parsed[f.frame].Package

\* startsWith without the look at the character after the prefix
hasPrefixOnly(str, prefix) == HasPrefix(str, prefix)

startsWith(str, prefix) ==
    IF ~HasPrefix(str, prefix) THEN FALSE
    ELSE IF Len(str) = Len(prefix) THEN TRUE
    ELSE ~IsLower(str[Len(prefix) + 1])

S_Mock == <<"M", "o", "c", "k">>
S_Test == <<"T", "e", "s", "t">>
S_Benchmark == <<"B", "e", "n", "c", "h", "m", "a", "r", "k">>
S_Example == <<"E", "x", "a", "m", "p", "l", "e">>

\* FuncInfo.IsMock, of the Object field
IsMockObject(object) == startsWith(object, S_Mock)

\* FuncInfo.IsTest that leaves out the benchmarks
IsTestOrExample(function) ==
    \/ startsWith(function, S_Test)
    \/ startsWith(function, S_Example)

\* FuncInfo.IsTest, of the Function field
IsTestFunction(function) ==
    \/ startsWith(function, S_Test)
    \/ startsWith(function, S_Benchmark)
    \/ startsWith(function, S_Example)

IsMock(f) == IsMockObject(Object(f))

IsTest(f) == IsTestFunction(Function(f))

----------------------------------------------------------------------------
(* The parts of the state a specification does not move. *)

Unset == "<unset>"
NilArgs == <<"<nil>">>
EnvStrings == {"A", "B"}

NoNames ==
    /\ name = EmptyStr
    /\ info = [step |-> "none"]

NoEnv ==
    /\ env = [n \in EnvStrings |-> Unset]
    /\ osArgs = NilArgs
    /\ afterFunc = <<>>
    /\ before = [env |-> env, osArgs |-> osArgs]
    /\ phase = "none"

----------------------------------------------------------------------------
(* CallerFuncInfo and BuildCallerStack. *)

\* CallerFuncInfo(callerIndex) on the stack: found, and the *FuncInfo.
\* runtime.FuncForPC finds the function of every pc runtime.Caller reports.
CallerFuncInfo(stack, callerIndex) ==
    IF callerIndex > Len(stack) THEN [ok |-> FALSE, f |-> NilFrame]
    ELSE IF FileOf(stack[callerIndex]) = AutoFile THEN [ok |-> FALSE, f |-> NilFrame]
    ELSE [ok |-> TRUE, f |-> NewFuncInfo(stack[callerIndex], callerIndex)]

\* &FuncInfoStack{Stack: []*FuncInfo{}}
EmptyStack ==
    [Caller |-> NilFrame, Stack |-> <<>>, Test |-> NilFrame, Tested |-> NilFrame,
     Mocked |-> NilFrame, Mocker |-> NilFrame, last |-> NilFrame, this |-> NilFrame]

\* the walk's first frame to look at: for i := 3
FirstIndex == 3

\* the loop body with s.last = f moved before the test check
WalkFrameLastFirst(st, f) ==
    LET s1 == [st EXCEPT !.Stack = Append(st.Stack, f)]
        s2 == IF s1.Caller = NilFrame /\ Package(f) # Package(s1.this)
              THEN [s1 EXCEPT !.Caller = f] ELSE s1
        s3 == IF s2.last = s2.Mocked THEN [s2 EXCEPT !.Mocker = f] ELSE s2
        s4 == IF IsMock(f) THEN [s3 EXCEPT !.Mocked = f] ELSE s3
        s5 == [s4 EXCEPT !.last = f]
    IN  IF IsTest(f) THEN [s5 EXCEPT !.Test = f, !.Tested = s5.last] ELSE s5

\* one iteration of the loop of BuildCallerStack, on the resolved frame f
WalkFrame(st, f) ==
    LET s1 == [st EXCEPT !.Stack = Append(st.Stack, f)]
        s2 == IF s1.Caller = NilFrame /\ Package(f) # Package(s1.this)
              THEN [s1 EXCEPT !.Caller = f] ELSE s1
        s3 == IF s2.last = s2.Mocked THEN [s2 EXCEPT !.Mocker = f] ELSE s2
        s4 == IF IsMock(f) THEN [s3 EXCEPT !.Mocked = f] ELSE s3
        s5 == IF IsTest(f) THEN [s4 EXCEPT !.Test = f, !.Tested = s4.last] ELSE s4
    IN  [s5 EXCEPT !.last = f]

RECURSIVE WalkFrom(_, _, _)
WalkFrom(stack, st, k) ==
    LET r == CallerFuncInfo(stack, k)
    IN  IF ~r.ok THEN st ELSE WalkFrom(stack, WalkFrame(st, r.f), k + 1)

\* BuildCallerStack on the goroutine's stack
BuildCallerStack(stack) ==
    LET this == CallerFuncInfo(stack, 1)
    IN  IF ~this.ok THEN EmptyStack
        ELSE WalkFrom(stack, [EmptyStack EXCEPT !.this = this.f], FirstIndex)

\* FuncInfoStack.MockedCall, on a classification with Mocker and Mocked set
MockedCall(st) ==
    Join(<<Object(st.Mocker), Function(st.Mocker), Object(st.Mocked), Function(st.Mocked)>>)

----------------------------------------------------------------------------
(* The walk, one loop iteration at a time. *)

\* the goroutine's stacks when Capture starts a walk
WalkStacks == {GoStack(<<"Capture">>, c) : c \in CallerStacks}

\* no earlier walk
NoSite == [Mocker |-> NilFrame, Mocked |-> NilFrame]

WalkInit ==
    /\ frames \in WalkStacks
    /\ i = 0
    /\ s = EmptyStack
    /\ pc = "entry"
    /\ prev = NoSite
    /\ captured = <<>>
    /\ capsFrom = <<>>
    /\ last = [op |-> "none", outcome |-> "idle"]
    /\ calls = <<>>
    /\ NoNames
    /\ NoEnv

\* s := &FuncInfoStack{...}; this, ok := CallerFuncInfo(1)
WalkEnter ==
    /\ pc = "entry"
    /\ LET this == CallerFuncInfo(frames, 1)
       IN  IF ~this.ok
           THEN /\ pc' = "returned"
                /\ s' = EmptyStack
                /\ UNCHANGED i
           ELSE /\ s' = [EmptyStack EXCEPT !.this = this.f]
                /\ i' = FirstIndex
                /\ pc' = "loop"
    /\ UNCHANGED <<frames, prev, storeVars, nameVars, envVars>>

\* one iteration of the loop whose frame resolves
WalkStep ==
    /\ pc = "loop"
    /\ LET r == CallerFuncInfo(frames, i)
       IN  /\ r.ok
           /\ s' = WalkFrame(s, r.f)
    /\ i' = i + 1
    /\ UNCHANGED <<pc, frames, prev, storeVars, nameVars, envVars>>

\* the iteration whose frame does not resolve: return s
WalkReturn ==
    /\ pc = "loop"
    /\ ~CallerFuncInfo(frames, i).ok
    /\ pc' = "returned"
    /\ UNCHANGED <<s, i, frames, prev, storeVars, nameVars, envVars>>

\* the goroutine goes on and walks once more, from another place of the test;
\* prev keeps the Mocker and Mocked of the walk that returned
WalkAgain ==
    /\ pc = "returned"
    /\ prev = NoSite
    /\ s.Mocker # NilFrame
    /\ s.Mocked # NilFrame
    /\ prev' = [Mocker |-> s.Mocker, Mocked |-> s.Mocked]
    /\ frames' \in WalkStacks
    /\ s' = EmptyStack
    /\ i' = 0
    /\ pc' = "entry"
    /\ UNCHANGED <<storeVars, nameVars, envVars>>

WalkNext == WalkEnter \/ WalkStep \/ WalkReturn \/ WalkAgain

WalkSpec == WalkInit /\ [][WalkNext]_vars

----------------------------------------------------------------------------
(* Claims about the walk, under WalkSpec. *)

\* place of the frame pointer f in the walked Stack, 0 when it is not there
PlaceOf(f) ==
    IF \E k \in 1..Len(s.Stack) : s.Stack[k] = f
    THEN CHOOSE k \in 1..Len(s.Stack) : s.Stack[k] = f
    ELSE 0

NoMockWalked == \A k \in 1..Len(s.Stack) : ~IsMock(s.Stack[k])

\* C1: a walk in which no walked frame satisfies IsMock, the non-empty walks
\* included, returns with Mocked and Mocker both nil.
C1_NoMockNoMocker ==
    (pc = "returned" /\ NoMockWalked) => (s.Mocked = NilFrame /\ s.Mocker = NilFrame)

\* C2: when a walk returns with Mocked set, Mocker is the frame that follows
\* Mocked in Stack, and nil when Mocked is the last frame walked.
C2_MockerFollowsMocked ==
    (pc = "returned" /\ s.Mocked # NilFrame) =>
        LET p == PlaceOf(s.Mocked)
        IN  /\ p # 0
            /\ s.Mocker = IF p < Len(s.Stack) THEN s.Stack[p + 1] ELSE NilFrame

\* C3: during a walk a field among Caller, Test, Tested, Mocked, Mocker that
\* is set is not changed by a later iteration of the loop.
C3_FieldsSetOnce ==
    [][(pc = "loop" /\ pc' = "loop") =>
          /\ (s.Caller # NilFrame => s'.Caller = s.Caller)
          /\ (s.Test # NilFrame => s'.Test = s.Test)
          /\ (s.Tested # NilFrame => s'.Tested = s.Tested)
          /\ (s.Mocked # NilFrame => s'.Mocked = s.Mocked)
          /\ (s.Mocker # NilFrame => s'.Mocker = s.Mocker)]_vars

\* the frames the walk is to classify: every frame from the caller of the entry
\* operation outward, the compiler's wrappers left out
RECURSIVE RealFramesFrom(_, _)
RealFramesFrom(stack, k) ==
    IF k > Len(stack) THEN <<>>
    ELSE IF FileOf(stack[k]) = AutoFile THEN RealFramesFrom(stack, k + 1)
    ELSE <<NewFuncInfo(stack[k], k)>> \o RealFramesFrom(stack, k + 1)

\* C9: a walk returns only when the stack is exhausted: Stack holds every
\* frame that is not a compiler's wrapper, from the caller of the entry
\* operation outward, once and in outward order, the frames beyond a wrapper
\* included.
C9_WalkReachesOutermost ==
    pc = "returned" => s.Stack = RealFramesFrom(frames, FirstIndex)

\* what identifies a frame's function: package, receiver type, function name
Ident(f) == [Package |-> Package(f), Object |-> Object(f), Function |-> Function(f)]

\* C10: two walks whose Mocker or Mocked differ in package, receiver type or
\* function name give different correlation keys.
C10_KeyIdentifiesSite ==
    (/\ pc = "returned"
     /\ prev # NoSite
     /\ s.Mocker # NilFrame
     /\ s.Mocked # NilFrame
     /\ (Ident(s.Mocker) # Ident(prev.Mocker) \/ Ident(s.Mocked) # Ident(prev.Mocked)))
    => MockedCall(s) # MockedCall(prev)

\* C16: on a stack where a test function directly calls a method of a receiver
\* type prefixed "Mock" and that method starts the walk (walked frames: the mock
\* method, the test function, then the frames outward of it), the walk returns
\* with Mocked = Tested = the frame of the mock method and Mocker = Test = the
\* frame of the test function.
C16_TestCallsMock ==
    (/\ pc = "returned"
     /\ Len(frames) >= FirstIndex + 1
     /\ CallerFuncInfo(frames, FirstIndex).ok
     /\ CallerFuncInfo(frames, FirstIndex + 1).ok
     /\ IsMock(NewFuncInfo(frames[FirstIndex], FirstIndex))
     /\ IsTest(NewFuncInfo(frames[FirstIndex + 1], FirstIndex + 1)))
    => LET mockFrame == NewFuncInfo(frames[FirstIndex], FirstIndex)
           testFrame == NewFuncInfo(frames[FirstIndex + 1], FirstIndex + 1)
       IN  /\ s.Mocked = mockFrame
           /\ s.Tested = mockFrame
           /\ s.Mocker = testFrame
           /\ s.Test = testFrame

InStack(f) == PlaceOf(f) # 0

\* C17: when a walk returns, each of Caller, Test, Tested, Mocked and Mocker
\* that is not nil is one of the pointers of Stack, and when Test is not nil
\* Tested is the element of Stack just before Test, nil exactly when Test is the
\* first element.
C17_FieldsPointIntoStack ==
    pc = "returned" =>
        /\ \A f \in {s.Caller, s.Test, s.Tested, s.Mocked, s.Mocker} :
              f # NilFrame => InStack(f)
        /\ s.Test # NilFrame =>
              LET p == PlaceOf(s.Test)
              IN  /\ p # 0
                  /\ s.Tested = IF p > 1 THEN s.Stack[p - 1] ELSE NilFrame

\* a walk has returned with a Test frame that is not the first walked and a
\* Mocked frame
C17_Witness ==
    /\ pc = "returned"
    /\ s.Test # NilFrame
    /\ s.Tested # NilFrame
    /\ s.Mocked # NilFrame
    /\ s.Caller # NilFrame
    /\ s.Tested # s.Mocked

----------------------------------------------------------------------------
(* The capture store of one BaseTest. *)

\* a captured value: its dynamic type and what it prints as
Int42 == [type |-> "int", v |-> "42"]
Int7 == [type |-> "int", v |-> "7"]
StrA == [type |-> "string", v |-> "a"]
Values == {Int42, Int7, StrA}

\* the values a test passes as expectTypeOf; nil is the untyped nil interface
Int0 == [type |-> "int", v |-> "0"]
StrEmpty == [type |-> "string", v |-> ""]
NilValue == [type |-> "nil", v |-> "nil"]
ExpectValues == {Int0, StrEmpty, NilValue}

\* the arguments of one Capture call
ArgLists == SeqsUpTo(Values, MaxCaptured)

\* reflect.Type.AssignableTo between the dynamic types of the model: distinct
\* named non-interface types, assignable only to themselves
AssignableTo(actualType, expectedType) == actualType = expectedType

\* gomega's AssignableToTypeOfMatcher{Expected: expectTypeOf}.Match(actual)
Match(expectTypeOf, actual) ==
    IF actual.type = "nil" /\ expectTypeOf.type = "nil"
    THEN [matched |-> FALSE, err |-> TRUE]
    ELSE IF expectTypeOf.type = "nil" THEN [matched |-> FALSE, err |-> TRUE]
    ELSE IF actual.type = "nil" THEN [matched |-> FALSE, err |-> FALSE]
    ELSE [matched |-> AssignableTo(actual.type, expectTypeOf.type), err |-> FALSE]

\* BaseTest.capturedOfType
capturedOfType(expectTypeOf, caps) ==
    SelectSeq(caps, LAMBDA cap : LET m == Match(expectTypeOf, cap)
                                 IN  ~m.err /\ m.matched)

\* append(caps, captured...) with the new values put first
PrependCaps(caps, values) == values \o caps

\* append(caps, captured...)
AppendCaps(caps, values) == caps \o values

\* how an operation ends: it returns, it fails the test through Fatalf (which
\* ends the test's goroutine), or the goroutine panics
Returned(op, args, value) ==
    [op |-> op, outcome |-> "returned", args |-> args, value |-> value]
Fatal(op, args) == [op |-> op, outcome |-> "fatal", args |-> args]
Panic(op, args) == [op |-> op, outcome |-> "panic", args |-> args]
Idle == [op |-> "none", outcome |-> "idle"]

\* the walks of an operation, one for every stack of callers: ops are the
\* BaseTest operations between BuildCallerStack and the callers
Walks(ops) ==
    {[callers |-> c, stack |-> BuildCallerStack(GoStack(ops, c))] : c \in StoreStacks}

\* what the operations on the store read of a walk: whether Mocked, Mocker and
\* Caller are set, and the key MockedCall gives
SiteOf(stack) ==
    [mocked |-> stack.Mocked # NilFrame,
     mocker |-> stack.Mocker # NilFrame,
     caller |-> stack.Caller # NilFrame,
     key |-> IF stack.Mocked # NilFrame /\ stack.Mocker # NilFrame
             THEN MockedCall(stack) ELSE EmptyStr]

\* one walk for all the walks in which the operations read the same
OnePerSite(walks) ==
    {CHOOSE w \in walks : SiteOf(w.stack) = site :
        site \in {SiteOf(w.stack) : w \in walks}}

CaptureWalks == OnePerSite(Walks(<<"Capture">>))
MockedCallNameWalks == OnePerSite(Walks(<<"GetMockedCallName">>))
\* GetCallerInfo as CapturedOfType and CapturedFrom call it
CapturedOfTypeWalks == OnePerSite(Walks(<<"GetCallerInfo", "CapturedOfType">>))
CapturedFromWalks == OnePerSite(Walks(<<"GetCallerInfo", "CapturedFrom">>))
\* GetCallerInfo as FirstCapturedOfType reaches it through CapturedOfType
FirstCapturedOfTypeWalks ==
    OnePerSite(Walks(<<"GetCallerInfo", "CapturedOfType", "FirstCapturedOfType">>))
\* GetCallerInfo as CapturedOfTypeFromCall reaches it through CapturedFrom, and
\* as it calls it itself
FromCallCapturedFromWalks ==
    Walks(<<"GetCallerInfo", "CapturedFrom", "CapturedOfTypeFromCall">>)
FromCallWalks == Walks(<<"GetCallerInfo", "CapturedOfTypeFromCall">>)
\* the two walks of one CapturedOfTypeFromCall call, under the same callers
FromCallPairs ==
    LET both == {pair \in FromCallCapturedFromWalks \X FromCallWalks :
                    pair[1].callers = pair[2].callers}
        pairs == {[from |-> pair[1].stack, stack |-> pair[2].stack] : pair \in both}
        read(pair) == <<SiteOf(pair.from), SiteOf(pair.stack)>>
    IN  {CHOOSE pair \in pairs : read(pair) = r : r \in {read(pair) : pair \in pairs}}

\* x.capsFrom[key], with a bucket that holds no value taken as no bucket
FoundNonEmpty(key) == key \in DOMAIN capsFrom /\ Len(capsFrom[key]) > 0

\* x.capsFrom[key], found
Found(key) == key \in DOMAIN capsFrom

\* x.capsFrom = map[string][]interface{}{key: caps}
PutOnlyCaps(key, caps) == [k \in {key} |-> caps]

\* x.capsFrom[key] = caps
PutCaps(key, caps) ==
    [k \in DOMAIN capsFrom \cup {key} |-> IF k = key THEN caps ELSE capsFrom[k]]

\* the history entries of one Capture call that returned: each value passed,
\* its place among the call's arguments, and the key the walk gave the call
CallEntries(mocked, key, values) ==
    [k \in 1..Len(values) |->
        [mocked |-> mocked, key |-> key, arg |-> k, val |-> values[k]]]

Init ==
    /\ captured = <<>>
    /\ capsFrom = <<>>
    /\ last = Idle
    /\ calls = <<>>
    /\ frames = <<>>
    /\ i = 0
    /\ s = EmptyStack
    /\ pc = "none"
    /\ prev = NoSite
    /\ NoNames
    /\ NoEnv

\* Capture(captured...), whose walk returns stack
Capture(stack, values) ==
    LET args == [values |-> values, mocked |-> stack.Mocked # NilFrame,
                 caller |-> stack.Caller # NilFrame,
                 key |-> IF stack.Mocked # NilFrame /\ stack.Mocker # NilFrame
                         THEN MockedCall(stack) ELSE EmptyStr]
    IN  /\ last.outcome = "idle"
        /\ Len(captured) + Len(values) <= MaxCaptured
        /\ IF stack.Mocked = NilFrame
           THEN IF stack.Caller = NilFrame
                \* stack.Caller.LogString() reads a field of the nil *FuncInfo
                THEN /\ last' = Panic("Capture", args)
                     /\ UNCHANGED <<captured, capsFrom, calls>>
                ELSE /\ captured' = AppendCaps(captured, values)
                     /\ calls' = calls \o CallEntries(FALSE, EmptyStr, values)
                     /\ last' = Returned("Capture", args, "x")
                     /\ UNCHANGED capsFrom
           ELSE IF stack.Mocker = NilFrame
                \* MockedCall reads a field of the nil Mocker
                THEN /\ last' = Panic("Capture", args)
                     /\ UNCHANGED <<captured, capsFrom, calls>>
                ELSE LET key == MockedCall(stack)
                         caps == IF Found(key) THEN capsFrom[key] ELSE <<>>
                     IN  /\ capsFrom' = PutCaps(key, AppendCaps(caps, values))
                         /\ captured' = AppendCaps(captured, values)
                         /\ calls' = calls \o CallEntries(TRUE, key, values)
                         /\ last' = Returned("Capture", args, "x")
        /\ UNCHANGED <<walkVars, nameVars, envVars>>

AllCaptured ==
    /\ last.outcome = "idle"
    /\ last' = Returned("AllCaptured", "none", captured)
    /\ UNCHANGED <<captured, capsFrom, calls, walkVars, nameVars, envVars>>

\* Captured(index, expectTypeOf); index counts from 0
Captured(index, expectTypeOf) ==
    LET args == [index |-> index, expectTypeOf |-> expectTypeOf]
    IN  /\ last.outcome = "idle"
        /\ last' =
             \* Expect(x.captured).ShouldNot(BeEmpty())
             IF Len(captured) = 0 THEN Fatal("Captured", args)
             \* Expect(len(x.captured)).Should(BeNumerically(">=", index+1))
             ELSE IF ~(Len(captured) >= index + 1) THEN Fatal("Captured", args)
             \* x.captured[index]: index out of range
             ELSE IF index < 0 \/ index >= Len(captured) THEN Panic("Captured", args)
             \* Expect(x.captured[index]).Should(BeAssignableToTypeOf(expectTypeOf))
             ELSE IF LET m == Match(expectTypeOf, captured[index + 1])
                     IN  m.err \/ ~m.matched
             THEN Fatal("Captured", args)
             ELSE Returned("Captured", args, captured[index + 1])
        /\ UNCHANGED <<captured, capsFrom, calls, walkVars, nameVars, envVars>>

\* the orders in which a range over the map can visit its keys
KeyOrders ==
    LET keys == DOMAIN capsFrom
        n == Cardinality(keys)
    IN  {order \in [1..n -> keys] : \A a, b \in 1..n : order[a] = order[b] => a = b}

RECURSIVE CapsInOrder(_, _)
CapsInOrder(expectTypeOf, order) ==
    IF Len(order) = 0 THEN <<>>
    ELSE AppendCaps(CapsInOrder(expectTypeOf, SubSeq(order, 1, Len(order) - 1)),
                    capturedOfType(expectTypeOf, capsFrom[order[Len(order)]]))

\* the operation fn reports x.GetCallerInfo().LogString() through Fatalf:
\* LogString reads a field of the *FuncInfo, which is nil when the walk found
\* no Caller
\* Fatalf that reports and lets the operation go on to return what it has
ReportAndReturn(fn, args, stack) == Returned(fn, args, <<>>)

FatalAtCaller(fn, args, stack) ==
    IF stack.Caller = NilFrame THEN Panic(fn, args) ELSE Fatal(fn, args)

\* CapturedOfType(expectTypeOf); the walk of its GetCallerInfo returns stack
CapturedOfType(stack, expectTypeOf) ==
    LET args == [expectTypeOf |-> expectTypeOf, caller |-> stack.Caller # NilFrame]
    IN  /\ last.outcome = "idle"
        /\ \E order \in KeyOrders :
             LET caps == CapsInOrder(expectTypeOf, order)
             IN  last' = IF Len(caps) = 0
                         THEN FatalAtCaller("CapturedOfType", args, stack)
                         ELSE Returned("CapturedOfType", args, caps)
        /\ UNCHANGED <<captured, capsFrom, calls, walkVars, nameVars, envVars>>

\* FirstCapturedOfType(expectTypeOf): x.CapturedOfType(expectTypeOf)[0]
FirstCapturedOfType(stack, expectTypeOf) ==
    LET args == [expectTypeOf |-> expectTypeOf, caller |-> stack.Caller # NilFrame]
    IN  /\ last.outcome = "idle"
        /\ \E order \in KeyOrders :
             LET caps == CapsInOrder(expectTypeOf, order)
                 inner == IF Len(caps) = 0
                          THEN FatalAtCaller("FirstCapturedOfType", args, stack)
                          ELSE Returned("FirstCapturedOfType", args, caps)
             IN  last' = IF inner.outcome # "returned" THEN inner
                         \* caps[0]: index out of range
                         ELSE IF Len(inner.value) = 0
                         THEN Panic("FirstCapturedOfType", args)
                         ELSE Returned("FirstCapturedOfType", args, inner.value[1])
        /\ UNCHANGED <<captured, capsFrom, calls, walkVars, nameVars, envVars>>

\* CapturedFrom(mockCall); the walk of its GetCallerInfo returns stack
CapturedFrom(stack, mockCall) ==
    LET args == [mockCall |-> mockCall, caller |-> stack.Caller # NilFrame]
    IN  /\ last.outcome = "idle"
        /\ last' =
             \* Expect(x.capsFrom).ShouldNot(BeEmpty())
             IF DOMAIN capsFrom = {} THEN Fatal("CapturedFrom", args)
             ELSE IF ~Found(mockCall) THEN FatalAtCaller("CapturedFrom", args, stack)
             ELSE Returned("CapturedFrom", args, capsFrom[mockCall])
        /\ UNCHANGED <<captured, capsFrom, calls, walkVars, nameVars, envVars>>

\* CapturedOfTypeFromCall(expectTypeOf, mockCall); fromStack is what the walk
\* inside its CapturedFrom returns, stack what the walk of its own GetCallerInfo
\* returns
CapturedOfTypeFromCall(fromStack, stack, expectTypeOf, mockCall) ==
    LET fn == "CapturedOfTypeFromCall"
        args == [expectTypeOf |-> expectTypeOf, mockCall |-> mockCall,
                 caller |-> stack.Caller # NilFrame]
    IN  /\ last.outcome = "idle"
        /\ last' =
             IF DOMAIN capsFrom = {} THEN Fatal(fn, args)
             ELSE IF ~Found(mockCall) THEN FatalAtCaller(fn, args, fromStack)
             ELSE LET caps == capturedOfType(expectTypeOf, capsFrom[mockCall])
                  IN  IF Len(caps) = 0 THEN FatalAtCaller(fn, args, stack)
                      ELSE Returned(fn, args, caps)
        /\ UNCHANGED <<captured, capsFrom, calls, walkVars, nameVars, envVars>>

\* GetMockedCallName(), whose walk returns stack
GetMockedCallName(stack) ==
    LET args == [mocked |-> stack.Mocked # NilFrame, mocker |-> stack.Mocker # NilFrame]
    IN  /\ last.outcome = "idle"
        /\ last' =
             \* s.MockedCall() reads fields of s.Mocker and s.Mocked
             IF stack.Mocker = NilFrame \/ stack.Mocked = NilFrame
             THEN Panic("GetMockedCallName", args)
             ELSE Returned("GetMockedCallName", args, MockedCall(stack))
        /\ UNCHANGED <<captured, capsFrom, calls, walkVars, nameVars, envVars>>

\* the test goes on to its next statement
Proceed ==
    /\ last.outcome = "returned"
    /\ last' = Idle
    /\ UNCHANGED <<captured, capsFrom, calls, walkVars, nameVars, envVars>>

\* the correlation keys a test may ask for
KnownKeys ==
    {MockedCall(w.stack) : w \in {x \in CaptureWalks : x.stack.Mocked # NilFrame}}

Next ==
    \/ \E w \in CaptureWalks, values \in ArgLists : Capture(w.stack, values)
    \/ AllCaptured
    \/ \E index \in -1..MaxCaptured, e \in ExpectValues : Captured(index, e)
    \/ \E w \in CapturedOfTypeWalks, e \in ExpectValues : CapturedOfType(w.stack, e)
    \/ \E w \in CapturedFromWalks, key \in KnownKeys : CapturedFrom(w.stack, key)
    \/ \E w \in FirstCapturedOfTypeWalks, e \in ExpectValues :
          FirstCapturedOfType(w.stack, e)
    \/ \E pair \in FromCallPairs, e \in ExpectValues, key \in KnownKeys :
          CapturedOfTypeFromCall(pair.from, pair.stack, e, key)
    \/ \E w \in MockedCallNameWalks : GetMockedCallName(w.stack)
    \/ Proceed

Spec == Init /\ [][Next]_vars

----------------------------------------------------------------------------
(* Claims about the capture store, under Spec. *)

\* the values the Capture calls that returned passed, in call and argument order
ValuesOf(entries) == [k \in 1..Len(entries) |-> entries[k].val]
PassedUnder(key) == SelectSeq(calls, LAMBDA e : e.mocked /\ e.key = key)

\* C4: CapturedFrom(k) returns the values passed to the Capture calls whose
\* correlation key was k, in call order and in argument order within a call,
\* and AllCaptured returns the values of all Capture calls in the same order.
C4_CapturedInCallOrder ==
    /\ (last.op = "CapturedFrom" /\ last.outcome = "returned") =>
           last.value = ValuesOf(PassedUnder(last.args.mockCall))
    /\ (last.op = "AllCaptured" /\ last.outcome = "returned") =>
           last.value = ValuesOf(calls)

\* CapturedFrom has returned a bucket that two Capture calls filled with
\* different values
C4_Witness ==
    /\ last.op = "CapturedFrom"
    /\ last.outcome = "returned"
    /\ Len(last.value) >= 2
    /\ last.value[1] # last.value[2]
    /\ LET under == PassedUnder(last.args.mockCall)
       IN  Len(SelectSeq(under, LAMBDA e : e.arg = 1)) >= 2

\* C5: a Capture whose walk finds no Mocked frame, the walk that finds no
\* Caller included, returns without failing the test or panicking, appends its
\* values in order to captured and leaves capsFrom as it was.
C5_CaptureWithoutMockReturns ==
    [][(last.outcome = "idle" /\ last'.op = "Capture" /\ ~last'.args.mocked) =>
          /\ last'.outcome = "returned"
          /\ captured' = captured \o last'.args.values
          /\ capsFrom' = capsFrom]_vars

\* C6: Captured(index, expectTypeOf) returns captured[index] when captured is
\* not empty, 0 <= index < len(captured) and the value's type is assignable to
\* the expected type; with any other index or a type mismatch it fails the test
\* through Fatalf, and never panics.
C6_CapturedReturnsOrFails ==
    last.op = "Captured" =>
        LET index == last.args.index
            expected == last.args.expectTypeOf
        IN  IF /\ Len(captured) > 0
               /\ 0 <= index
               /\ index < Len(captured)
               /\ expected.type # "nil"
               /\ AssignableTo(captured[index + 1].type, expected.type)
            THEN last.outcome = "returned" /\ last.value = captured[index + 1]
            ELSE last.outcome = "fatal"

\* C7: CapturedOfType(T) returns every value of captured whose type is
\* assignable to T, whether Capture put it under a key or only in captured, and
\* fails the test only when no captured value is assignable to T.
C7_CapturedOfTypeFindsAll ==
    last.op = "CapturedOfType" =>
        LET expected == last.args.expectTypeOf
            wanted == {k \in 1..Len(captured) :
                          /\ expected.type # "nil"
                          /\ AssignableTo(captured[k].type, expected.type)}
        IN  wanted # {} =>
                /\ last.outcome = "returned"
                /\ \A k \in wanted :
                      \E j \in 1..Len(last.value) : last.value[j] = captured[k]

AllAssignable(caps, expectTypeOf) ==
    /\ expectTypeOf.type # "nil"
    /\ \A k \in 1..Len(caps) : AssignableTo(caps[k].type, expectTypeOf.type)

\* caps is made of values of bucket, in the bucket's order
RECURSIVE IsSubSeqOf(_, _)
IsSubSeqOf(caps, bucket) ==
    IF Len(caps) = 0 THEN TRUE
    ELSE IF Len(bucket) = 0 THEN FALSE
    ELSE IF Head(caps) = Head(bucket) THEN IsSubSeqOf(Tail(caps), Tail(bucket))
    ELSE IsSubSeqOf(caps, Tail(bucket))

C8_MockedCallNameNeverPanics ==
    last.op = "GetMockedCallName" => last.outcome # "panic"

\* the number of values in the buckets of the keys
RECURSIVE BucketTotal(_)
BucketTotal(keys) ==
    IF keys = {} THEN 0
    ELSE LET k == CHOOSE x \in keys : TRUE
         IN  Len(capsFrom[k]) + BucketTotal(keys \ {k})

\* caps begins with the values of old
Extends(caps, old) ==
    /\ Len(caps) >= Len(old)
    /\ SubSeq(caps, 1, Len(old)) = old

\* C19: in every state a sequence of Capture calls and retrievals reaches, each
\* bucket of capsFrom is made of values of captured in the order captured has
\* them; the buckets hold together at most len(captured) values, and exactly
\* that many when every value was passed by a Capture that found a mock frame;
\* and no step, Capture or retrieval, drops a bucket, shortens captured or a
\* bucket, or changes a value already in them.
C19_BucketsWithinCaptured ==
    /\ [](/\ \A k \in DOMAIN capsFrom : IsSubSeqOf(capsFrom[k], captured)
          /\ BucketTotal(DOMAIN capsFrom) <= Len(captured)
          /\ BucketTotal(DOMAIN capsFrom) = Len(captured)
                <=> \A n \in 1..Len(calls) : calls[n].mocked)
    /\ [][/\ Extends(captured', captured)
          /\ \A k \in DOMAIN capsFrom :
                /\ k \in DOMAIN capsFrom'
                /\ Extends(capsFrom'[k], capsFrom[k])]_vars

\* after a Capture under a mock frame and one without, both with a value, a
\* retrieval has returned
C19_Witness ==
    /\ Len(captured) = 2
    /\ BucketTotal(DOMAIN capsFrom) = 1
    /\ last.op = "CapturedFrom"
    /\ last.outcome = "returned"

\* C20: CapturedOfType(T) returns the values it finds in the order they were
\* captured, the same sequence at every execution on the same store, and
\* FirstCapturedOfType(T) returns the earliest captured of them, also when the
\* values are spread over two or more keys.
C20_OfTypeInCaptureOrder ==
    /\ (last.op = "CapturedOfType" /\ last.outcome = "returned") =>
           IsSubSeqOf(last.value, captured)
    /\ (last.op = "FirstCapturedOfType" /\ last.outcome = "returned") =>
           LET keyed == ValuesOf(SelectSeq(calls, LAMBDA e : e.mocked))
           IN  last.value = Head(capturedOfType(last.args.expectTypeOf, keyed))

----------------------------------------------------------------------------
(* FuncInfo on raw names: NewFuncInfo parses the name, then the walk asks   *)
(* IsMock and IsTest of the FuncInfo.                                      *)

\* the most segments of a raw name made of segments
MaxSegments == 3
\* the longest tail of characters put after a prefix
MaxTail == 2

\* segments between the dots of a raw name: plain ones, object references
\* with and without the pointer mark, and ones with half of the parentheses
Segments ==
    {<<>>, <<"p">>, <<"f">>, <<"(", "T", ")">>, <<"(", "*", "T", ")">>,
     <<"(", "*", "*", "T", ")">>, <<"(", ")">>, <<"(">>, <<"T", ")">>}

SegmentNames == {Join(segs) : segs \in SeqsUpTo(Segments, MaxSegments)}

S_mock == <<"m", "o", "c", "k">>
S_test == <<"t", "e", "s", "t">>
S_Tes == <<"T", "e", "s">>
S_Logger == <<"L", "o", "g", "g", "e", "r">>
S_er == <<"e", "r">>
S_ish == <<"i", "s", "h">>
S_ing == <<"i", "n", "g">>
S_Foo == <<"F", "o", "o">>

\* how the names of receiver types and functions begin and go on
Stems == {EmptyStr, S_Mock, S_mock, S_Test, S_test, S_Tes, S_Benchmark, S_Example}
TailChars == {"e", "g", "X", "Y", "_", "0"}
Tails == SeqsUpTo(TailChars, MaxTail) \cup {S_Logger, S_er, S_ish, S_ing, S_Foo}
Words == {stem \o tail : stem \in Stems, tail \in Tails}

\* raw names of functions and methods whose receiver type or function is a word
WordNames ==
    {MethodName(S_app, w, S_Run) : w \in Words}
        \cup {MethodName(S_app, S_Svc, w) : w \in Words}
        \cup {FuncName(S_app, w) : w \in Words}

RawNames == SegmentNames \cup WordNames

NoStore ==
    /\ captured = <<>>
    /\ capsFrom = <<>>
    /\ last = Idle
    /\ calls = <<>>

NoWalk ==
    /\ frames = <<>>
    /\ i = 0
    /\ s = EmptyStack
    /\ pc = "none"
    /\ prev = NoSite

NameInit ==
    /\ name \in RawNames
    /\ info = [step |-> "raw"]
    /\ NoStore
    /\ NoWalk
    /\ NoEnv

\* NewFuncInfo(f, file, line): (&FuncInfo{...}).parseName()
NameNewFuncInfo ==
    /\ info.step = "raw"
    /\ LET f == parseName(name)
       IN  info' = [step |-> "parsed", Function |-> f.Function,
                    Object |-> f.Object, Package |-> f.Package]
    /\ UNCHANGED <<name, storeVars, walkVars, envVars>>

\* f.IsMock() and f.IsTest(), as the walk asks them of every frame
NameClassify ==
    /\ info.step = "parsed"
    /\ info' = [step |-> "classified", Function |-> info.Function,
                Object |-> info.Object, Package |-> info.Package,
                IsMock |-> IsMockObject(info.Object),
                IsTest |-> IsTestFunction(info.Function)]
    /\ UNCHANGED <<name, storeVars, walkVars, envVars>>

NameNext == NameNewFuncInfo \/ NameClassify

NameSpec == NameInit /\ [][NameNext]_vars

----------------------------------------------------------------------------
(* Claims about names, under NameSpec. *)

S_MockLogger == S_Mock \o S_Logger
S_Mocker == S_Mock \o S_er
S_Mockish == S_Mock \o S_ish
S_mocker == S_mock \o S_er

\* C13, as claimed: the receiver types MockLogger, Mocker and Mockish make a
\* frame a mock frame, the receiver type mocker does not.
C13_MockExamplesAsClaimed ==
    info.step = "classified" =>
        /\ info.Object = S_MockLogger => info.IsMock
        /\ info.Object = S_Mocker => info.IsMock
        /\ info.Object = S_Mockish => info.IsMock
        /\ info.Object = S_mocker => ~info.IsMock

\* C13, amended: the receiver type MockLogger makes a frame a mock frame; the
\* receiver types Mocker and Mockish do not, a lower-case letter following
\* "Mock" in them, and neither does mocker.
C13_MockExamples ==
    info.step = "classified" =>
        /\ info.Object = S_MockLogger => info.IsMock
        /\ info.Object = S_Mocker => ~info.IsMock
        /\ info.Object = S_Mockish => ~info.IsMock
        /\ info.Object = S_mocker => ~info.IsMock

\* a method of the receiver type Mocker has been classified
C13_Witness ==
    /\ info.step = "classified"
    /\ info.Object = S_Mocker
    /\ ~info.IsMock

S_X == <<"X">>
S_Y == <<"Y">>
TestPrefixes == {S_Test, S_Benchmark, S_Example}

\* the function name begins with prefix and goes on, if it goes on, with a
\* character that is not a lower-case letter
BeginsWord(function, prefix) ==
    /\ Len(function) >= Len(prefix)
    /\ \A k \in 1..Len(prefix) : function[k] = prefix[k]
    /\ Len(function) > Len(prefix) => function[Len(prefix) + 1] \notin LowerLetters

\* C14: IsTest holds of a function name exactly when the name begins with
\* "Test", "Benchmark" or "Example" and what follows the prefix is empty or
\* begins with a character that is not a lower-case letter (a digit or an
\* underscore counts); Test, TestFoo, BenchmarkX and ExampleY are test frames,
\* Testing is not.
C14_IsTestRule ==
    info.step = "classified" =>
        /\ info.IsTest <=> \E prefix \in TestPrefixes : BeginsWord(info.Function, prefix)
        /\ info.Function \in {S_Test, S_Test \o S_Foo, S_Benchmark \o S_X,
                               S_Example \o S_Y} => info.IsTest
        /\ info.Function = S_Test \o S_ing => ~info.IsTest

\* a benchmark whose name goes on with an underscore has been classified
C14_Witness ==
    /\ info.step = "classified"
    /\ info.Function = S_Benchmark \o <<"_">>
    /\ info.IsTest

\* the segment is wrapped in parentheses
Wrapped(seg) == Len(seg) >= 2 /\ seg[1] = "(" /\ seg[Len(seg)] = ")"

\* the segment without its parentheses and without one leading "*"
Unwrapped(seg) ==
    LET inner == SubSeq(seg, 2, Len(seg) - 1)
    IN  IF Len(inner) > 0 /\ inner[1] = "*" THEN Tail(inner) ELSE inner

\* the decomposition of a raw name by the rule of the claim
Decomposed(rawName) ==
    LET segs == Split(rawName)
        n == Len(segs)
        wrapped == {k \in 1..n : Wrapped(segs[k])}
    IN  IF n < 2
        THEN [Function |-> rawName, Object |-> EmptyStr, Package |-> EmptyStr]
        ELSE IF wrapped # {}
        THEN LET k == CHOOSE m \in wrapped : \A o \in wrapped : m <= o
             IN  [Function |-> Join([j \in 1..(n - k) |-> segs[k + j]]),
                  Object   |-> Unwrapped(segs[k]),
                  Package  |-> Join([j \in 1..(k - 1) |-> segs[j]])]
        ELSE [Function |-> segs[n],
              Object   |-> EmptyStr,
              Package  |-> Join([j \in 1..(n - 1) |-> segs[j]])]

\* C15: parseName gives every raw name a Function, an Object and a Package: the
\* whole name as Function when it has fewer than two segments; else, about the
\* first segment wrapped in parentheses, the segments before it as Package,
\* the segment without parentheses and one leading "*" as Object and the
\* segments after it as Function (empty when there are none); and with no such
\* segment the last segment as Function and the others as Package.
C15_ParseNameRule ==
    info.step \in {"parsed", "classified"} =>
        LET rule == Decomposed(name)
        IN  /\ info.Function = rule.Function
            /\ info.Object = rule.Object
            /\ info.Package = rule.Package

\* a name with two object references, the first the last but one segment and
\* with two pointer marks, has been parsed
C15_Witness ==
    /\ info.step = "parsed"
    /\ name = <<"p", ".", "(", "*", "*", "T", ")", ".", "(", "T", ")">>
    /\ info.Object = <<"*", "T">>
    /\ info.Function = <<"(", "T", ")">>

----------------------------------------------------------------------------
(* SetEnv, SetEnvs, SetArgs and Done: the overrides of the process          *)
(* environment and of os.Args, and the functions Done runs to undo them.   *)

\* the most functions a test hands to DoAfter
MaxRestores == 3
\* the most strings a test passes to SetEnvs in one call
MaxEnvArgs == 3

\* the functions of afterFunc
Finish == [kind |-> "Finish", name |-> "", val |-> "", args |-> <<>>]
Setenv(n, v) == [kind |-> "Setenv", name |-> n, val |-> v, args |-> <<>>]
Unsetenv(n) == [kind |-> "Unsetenv", name |-> n, val |-> "", args |-> <<>>]
RestoreArgs(args) == [kind |-> "Args", name |-> "", val |-> "", args |-> args]

\* os.Args when the test begins, and the arguments a test passes to SetArgs
InitialArgs == {NilArgs, <<"cmd", "A">>}
SetArgLists == SeqsUpTo(EnvStrings, 1)
\* the strings a test passes to SetEnvs
EnvArgLists == SeqsUpTo(EnvStrings, MaxEnvArgs)

\* DoAfter(doAfterFunc): the new afterFunc runs the old one, then doAfterFunc
DoAfter(after, doAfterFunc) == Append(after, doAfterFunc)

\* restoreExistingEnvAfter(name), in the environment e
restoreExistingEnvAfter(after, e, n) ==
    IF e[n] # Unset THEN DoAfter(after, Setenv(n, e[n]))
    ELSE DoAfter(after, Unsetenv(n))

\* SetEnv(name, val) on the environment and afterFunc of st
SetEnvOn(st, n, v) ==
    [env |-> [st.env EXCEPT ![n] = v],
     afterFunc |-> restoreExistingEnvAfter(st.afterFunc, st.env, n)]

\* splitPairs and the loop of SetEnvs
RECURSIVE SetEnvPairs(_, _)
SetEnvPairs(st, namesAndValues) ==
    IF Len(namesAndValues) < 2 THEN st
    ELSE SetEnvPairs(SetEnvOn(st, namesAndValues[1], namesAndValues[2]),
                     SubSeq(namesAndValues, 3, Len(namesAndValues)))

\* the functions of afterFunc run one after the other, the first first
RECURSIVE RunAfter(_, _)
RunAfter(after, st) ==
    IF Len(after) = 0 THEN st
    ELSE LET fn == Head(after)
             next == CASE fn.kind = "Setenv" -> [st EXCEPT !.env[fn.name] = fn.val]
                       [] fn.kind = "Unsetenv" -> [st EXCEPT !.env[fn.name] = Unset]
                       [] fn.kind = "Args" -> [st EXCEPT !.osArgs = fn.args]
                       [] OTHER -> st
         IN  RunAfter(Tail(after), next)

\* the functions handed to DoAfter so far
Restores == Len(afterFunc) - 1

EnvInit ==
    /\ env \in [EnvStrings -> EnvStrings \cup {Unset}]
    /\ osArgs \in InitialArgs
    /\ afterFunc = <<Finish>>
    /\ before = [env |-> env, osArgs |-> osArgs]
    /\ phase = "running"
    /\ NoStore
    /\ NoWalk
    /\ NoNames

SetEnv(n, v) ==
    /\ phase = "running"
    /\ Restores < MaxRestores
    /\ LET st == SetEnvOn([env |-> env, afterFunc |-> afterFunc], n, v)
       IN  /\ env' = st.env
           /\ afterFunc' = st.afterFunc
    /\ UNCHANGED <<osArgs, before, phase, storeVars, walkVars, nameVars>>

\* SetEnvs(namesAndValues...); with no strings namesAndValues is nil
SetEnvs(namesAndValues) ==
    /\ phase = "running"
    /\ Restores + (Len(namesAndValues) \div 2) <= MaxRestores
    /\ IF Len(namesAndValues) = 1 \/ Len(namesAndValues) % 2 = 1
       \* Fatalf ends the test
       THEN /\ phase' = "failed"
            /\ UNCHANGED <<env, afterFunc>>
       ELSE LET st == SetEnvPairs([env |-> env, afterFunc |-> afterFunc],
                                  namesAndValues)
            IN  /\ env' = st.env
                /\ afterFunc' = st.afterFunc
                /\ UNCHANGED phase
    /\ UNCHANGED <<osArgs, before, storeVars, walkVars, nameVars>>

SetArgs(args) ==
    /\ phase = "running"
    /\ Restores < MaxRestores
    \* restoreExistingArgsAfter
    /\ afterFunc' = IF osArgs # NilArgs THEN DoAfter(afterFunc, RestoreArgs(osArgs))
                    ELSE afterFunc
    /\ osArgs' = args
    /\ UNCHANGED <<env, before, phase, storeVars, walkVars, nameVars>>

\* Done(), at the end of the test or on its way out after Fatalf
Done ==
    /\ phase \in {"running", "failed"}
    /\ LET st == RunAfter(afterFunc, [env |-> env, osArgs |-> osArgs])
       IN  /\ env' = st.env
           /\ osArgs' = st.osArgs
    /\ phase' = "done"
    /\ UNCHANGED <<afterFunc, before, storeVars, walkVars, nameVars>>

EnvNext ==
    \/ \E n \in EnvStrings, v \in EnvStrings : SetEnv(n, v)
    \/ \E namesAndValues \in EnvArgLists : SetEnvs(namesAndValues)
    \/ \E args \in SetArgLists : SetArgs(args)
    \/ Done

EnvSpec == EnvInit /\ [][EnvNext]_vars

----------------------------------------------------------------------------
(* Claims about the overrides, under EnvSpec. *)

\* C18: after any SetEnv, SetEnvs and SetArgs calls, several for one variable
\* included, and then Done, every environment variable has the value it had
\* when the test began, or is unset if it was, and os.Args is what it was.
C18_DoneRestores ==
    phase = "done" => (env = before.env /\ osArgs = before.osArgs)

====
